---- MODULE Spec2Model ----
(***************************************************************************)
(* State-machine model of the report computations of reports.py and of    *)
(* the store updates of fetchdata.py.                                      *)
(*                                                                         *)
(* The three data frames returned by base_data (plays, games, collection)  *)
(* are sequences of records, one record per row, in row order.  Every     *)
(* *_data function is an operator that computes what the pandas pipeline   *)
(* computes, and one action that applies it to the loaded frames, stores   *)
(* the value it returns in `out` and performs the column assignments the   *)
(* function makes on the caller's `plays` frame.                           *)
(*                                                                         *)
(* Dates are <<year, month, day>> triples (the store keeps 'YYYY-MM-DD'    *)
(* text, parsed by pd.to_datetime); NULL / NaN / NaT are tagged values.    *)
(*                                                                         *)
(* collectionitems is the table of that name in the store: a set of rows   *)
(* with primary key (username, gameid).  call is where the one process    *)
(* stands in collection(username): idle, or waiting for the remote service *)
(* with the stored game ids it read before asking.                         *)
(***************************************************************************)
EXTENDS Integers, Sequences, FiniteSets, TLC

VARIABLES plays, games, collection, out, collectionitems, call

vars == <<plays, games, collection, out, collectionitems, call>>

-----------------------------------------------------------------------------
(* Bounds of the model *)

MaxPlays == 3

-----------------------------------------------------------------------------
(* Generic helpers: sequences as data-frame rows *)

None == <<>>

RECURSIVE Sum(_)
Sum(s) == IF s = <<>> THEN 0 ELSE Head(s) + Sum(Tail(s))

Range(s) == {s[i] : i \in 1..Len(s)}

Column(rows, col) == [i \in 1..Len(rows) |-> rows[i][col]]

MinOf(S) == CHOOSE x \in S : \A y \in S : x <= y

MaxOf(S) == CHOOSE x \in S : \A y \in S : y <= x

RECURSIVE SortedInts(_)
SortedInts(S) ==
    IF S = {} THEN <<>> ELSE <<MinOf(S)>> \o SortedInts(S \ {MinOf(S)})

(* Stable sort of a sequence by a strict order Less (pandas sorts several  *)
(* keys with a stable lexsort, so rows equal on all keys keep their order) *)
InsertStable(t, x, Less(_, _)) ==
    LET later == {j \in 1..Len(t) : Less(x, t[j])}
        p     == IF later = {} THEN Len(t) + 1 ELSE MinOf(later)
    IN  SubSeq(t, 1, p - 1) \o <<x>> \o SubSeq(t, p, Len(t))

StableSort(s, Less(_, _)) ==
    LET ins[i \in 0..Len(s)] ==
            IF i = 0 THEN <<>> ELSE InsertStable(ins[i - 1], s[i], Less)
    IN  ins[Len(s)]

-----------------------------------------------------------------------------
(* Calendar dates *)

DateLT(a, b) ==
    \/ a[1] < b[1]
    \/ a[1] = b[1] /\ a[2] < b[2]
    \/ a[1] = b[1] /\ a[2] = b[2] /\ a[3] < b[3]

DateLE(a, b) == a = b \/ DateLT(a, b)

MaxDate(S) == CHOOSE x \in S : \A y \in S : DateLE(y, x)

MinDate(S) == CHOOSE x \in S : \A y \in S : DateLE(x, y)

IsLeap(y) == (y % 4 = 0) /\ ((y % 100 # 0) \/ (y % 400 = 0))

(* a month length that ignores leap years *)
monthrange_common(y, m) == <<31, 28, 31, 30, 31, 30, 31, 31, 30, 31, 30, 31>>[m]

(* calendar.monthrange(y, m)[1]: the number of days of the month *)
monthrange(y, m) ==
    IF m = 2 THEN (IF IsLeap(y) THEN 29 ELSE 28)
    ELSE IF m \in {4, 6, 9, 11} THEN 30 ELSE 31

DaysBeforeYear(y) ==
    (y - 1) * 365 + ((y - 1) \div 4) - ((y - 1) \div 100) + ((y - 1) \div 400)

DaysBeforeMonth(y, m) == Sum([k \in 1..(m - 1) |-> monthrange(y, k)])

Ordinal(d) == DaysBeforeYear(d[1]) + DaysBeforeMonth(d[1], d[2]) + d[3]

(* datetime subtraction: the number of days of the timedelta b - a *)
DaysBetween(a, b) == Ordinal(b) - Ordinal(a)

(* date - datetime.timedelta(days=1) *)
PrevDay(d) ==
    IF d[3] > 1 THEN <<d[1], d[2], d[3] - 1>>
    ELSE IF d[2] > 1 THEN <<d[1], d[2] - 1, monthrange(d[1], d[2] - 1)>>
    ELSE <<d[1] - 1, 12, 31>>

(* date + datetime.timedelta(days=n) for n >= 0: the day of the year moves  *)
(* on by n, into the following years when it passes 31 December            *)
RECURSIVE AddDays(_, _)
AddDays(d, n) ==
    LET y      == d[1]
        target == DaysBeforeMonth(y, d[2]) + d[3] + n
        length == IF IsLeap(y) THEN 366 ELSE 365
    IN  IF target > length
        THEN AddDays(<<y + 1, 1, 1>>, target - length - 1)
        ELSE LET m == CHOOSE k \in 1..12 :
                        /\ DaysBeforeMonth(y, k) < target
                        /\ target <= DaysBeforeMonth(y, k) + monthrange(y, k)
             IN  <<y, m, target - DaysBeforeMonth(y, m)>>

-----------------------------------------------------------------------------
(* Cell values of the data frames *)

(* SQL NULL read into a numeric column (rating, rank, year): fetchdata      *)
(* stores None for a falsy value, so 0 never occurs as a stored number.     *)
NaN == 0

(* The values of the columns the reports assign on the plays frame *)
NoColumn == <<"absent">>
IntCell(n) == <<"int", n>>
DateCell(d) == <<"date", d>>
NaNCell == <<"nan">>

-----------------------------------------------------------------------------
(* hindex_data *)

(* a cutoff that drops the plays dated on the cutoff day *)
plays_upto_strict(P, date) ==
    IF date = None THEN P ELSE SelectSeq(P, LAMBDA r : DateLT(r.date, date))

(* plays = plays[plays["date"] <= date] when a date is given *)
plays_upto(P, date) ==
    IF date = None THEN P ELSE SelectSeq(P, LAMBDA r : DateLE(r.date, date))

(* an aggregation that counts equal quantities of a game once *)
play_totals_distinct(P) ==
    LET ids == SortedInts(Range(Column(P, "gameid")))
    IN  [k \in 1..Len(ids) |->
            LET rows == SelectSeq(P, LAMBDA r : r.gameid = ids[k])
            IN  [gameid |-> ids[k],
                 plays  |-> Sum(SortedInts(Range(Column(rows, "quantity")))),
                 latest |-> MaxDate(Range(Column(rows, "date")))]]

(* plays.groupby("gameid").agg(plays=("quantity","sum"), latest=("date","max")) *)
(* one row per gameid that has a row in P, in ascending gameid order            *)
play_totals(P) ==
    LET ids == SortedInts(Range(Column(P, "gameid")))
    IN  [k \in 1..Len(ids) |->
            LET rows == SelectSeq(P, LAMBDA r : r.gameid = ids[k])
            IN  [gameid |-> ids[k],
                 plays  |-> Sum(Column(rows, "quantity")),
                 latest |-> MaxDate(Range(Column(rows, "date")))]]

(* pd.merge(games, collection).loc[:, ["gameid","name","expansion","rating"]]  *)
(* inner join on the one shared column gameid, in the order of the games rows  *)
game_data(G, C) ==
    LET inColl == SelectSeq(G, LAMBDA g : \E i \in 1..Len(C) : C[i].gameid = g.gameid)
    IN  [k \in 1..Len(inColl) |->
            LET c == C[CHOOSE i \in 1..Len(C) : C[i].gameid = inColl[k].gameid]
            IN  [gameid    |-> inColl[k].gameid,
                 name      |-> inColl[k].name,
                 expansion |-> inColl[k].expansion,
                 rating    |-> c.rating]]

(* pd.merge(totals, game_data, left_index=True, right_index=True): inner join  *)
(* on gameid, rows in the order of the left frame                              *)
merge_index(T, GD) ==
    LET kept == SelectSeq(T, LAMBDA t : \E i \in 1..Len(GD) : GD[i].gameid = t.gameid)
    IN  [k \in 1..Len(kept) |->
            LET g == GD[CHOOSE i \in 1..Len(GD) : GD[i].gameid = kept[k].gameid]
            IN  [f \in (DOMAIN kept[k]) \cup (DOMAIN g) |->
                    IF f \in DOMAIN kept[k] THEN kept[k][f] ELSE g[f]]]

(* hitems[hitems["expansion"] == 0] *)
not_expansion(row) == row.expansion = 0

(* a ranking that breaks ties by the later latest-play date *)
hitems_less_latest_desc(a, b) ==
    \/ (0 - a.plays) < (0 - b.plays)
    \/ a.plays = b.plays /\ DateLT(b.latest, a.latest)

(* sort_values(by=["sort_plays", "latest"]) with sort_plays = -plays *)
hitems_less(a, b) ==
    \/ (0 - a.plays) < (0 - b.plays)
    \/ a.plays = b.plays /\ DateLT(a.latest, b.latest)

(* membership tests off by one *)
in_hindex_le(row) == row.h <= row.plays

in_hindex_next(row) == row.h + 1 < row.plays

(* the ranked frame: joined, expansions dropped, sorted, h = np.arange(n) *)
hitems(P, G, C, date) ==
    LET joined == merge_index(play_totals(plays_upto(P, date)), game_data(G, C))
        kept   == SelectSeq(joined, not_expansion)
        sorted == StableSort(kept, hitems_less)
    IN  [k \in 1..Len(sorted) |->
            [gameid |-> sorted[k].gameid, name |-> sorted[k].name,
             plays |-> sorted[k].plays, latest |-> sorted[k].latest,
             rating |-> sorted[k].rating, h |-> k - 1]]

(* a near-miss test that forgets the rank *)
near_miss_any_rank(row) == row.rating = 10

in_hindex(row) == row.h < row.plays

near_miss(row) == row.h >= row.plays /\ row.rating = 10

name_plays(rows) ==
    [k \in 1..Len(rows) |->
        [gameid |-> rows[k].gameid, name |-> rows[k].name, plays |-> rows[k].plays]]

hindex_data(P, G, C, date) ==
    LET H == hitems(P, G, C, date)
    IN  <<name_plays(SelectSeq(H, in_hindex)), name_plays(SelectSeq(H, near_miss))>>

-----------------------------------------------------------------------------
(* new_to_me_data *)

InWindow(date, start, finish) == DateLE(start, date) /\ DateLE(date, finish)

(* a window that counts a play dated exactly start as earlier *)
quantity_before_le(row, start) == IF DateLE(row.date, start) THEN row.quantity ELSE 0

(* a column assignment that keeps the cell an earlier report left behind *)
quantity_before_stale(row, start) ==
    IF row.before # NoColumn /\ row.before[1] = "int" THEN row.before[2]
    ELSE IF DateLT(row.date, start) THEN row.quantity ELSE 0

(* plays["before"] = 0; plays["during"] = 0;                                *)
(* plays.loc[date < start, ["before"]] = quantity;                          *)
(* plays.loc[start <= date <= finish, ["during"]] = quantity                *)
quantity_before(row, start) == IF DateLT(row.date, start) THEN row.quantity ELSE 0

quantity_during(row, start, finish) ==
    IF InWindow(row.date, start, finish) THEN row.quantity ELSE 0

with_quantity_columns(P, start, finish) ==
    [i \in 1..Len(P) |->
        [P[i] EXCEPT !.before = IntCell(quantity_before(P[i], start)),
                     !.during = IntCell(quantity_during(P[i], start, finish))]]

(* plays.groupby("gameid").agg(plays=("during","sum"), previous=("before","sum")) *)
window_totals(P) ==
    LET ids == SortedInts(Range(Column(P, "gameid")))
    IN  [k \in 1..Len(ids) |->
            LET rows == SelectSeq(P, LAMBDA r : r.gameid = ids[k])
            IN  [gameid   |-> ids[k],
                 plays    |-> Sum([i \in 1..Len(rows) |-> rows[i].during[2]]),
                 previous |-> Sum([i \in 1..Len(rows) |-> rows[i].before[2]])]]

(* new[(new["previous"] == 0) & (new["plays"] > 0)] *)
is_new(row) == row.previous = 0 /\ row.plays > 0

(* sort_values(by="rating", ascending=False): NaN ratings last *)
rating_desc(a, b) == a.rating > b.rating

new_to_me_data(P, G, C, start, finish) ==
    LET new    == SelectSeq(window_totals(with_quantity_columns(P, start, finish)), is_new)
        merged == SelectSeq(merge_index(new, game_data(G, C)), not_expansion)
        sorted == StableSort(merged, rating_desc)
    IN  [k \in 1..Len(sorted) |->
            [gameid |-> sorted[k].gameid, name |-> sorted[k].name,
             rating |-> sorted[k].rating]]

-----------------------------------------------------------------------------
(* dust_data *)

(* plays["before"] = date if date < start else NaN;                         *)
(* plays["during"] = date if start <= date <= finish else NaN               *)
date_before(row, start) ==
    IF DateLT(row.date, start) THEN DateCell(row.date) ELSE NaNCell

date_during(row, start, finish) ==
    IF InWindow(row.date, start, finish) THEN DateCell(row.date) ELSE NaNCell

with_date_columns(P, start, finish) ==
    [i \in 1..Len(P) |->
        [P[i] EXCEPT !.before = date_before(P[i], start),
                     !.during = date_during(P[i], start, finish)]]

CellDates(rows, col) ==
    {rows[i][col][2] : i \in {j \in 1..Len(rows) : rows[j][col] # NaNCell}}

(* groupby("gameid").agg(last_before=("before","max"),                      *)
(*                       first_during=("during","min")).dropna()            *)
dusty_rows(P) ==
    LET ids  == SortedInts(Range(Column(P, "gameid")))
        both == SelectSeq(ids, LAMBDA g :
                    LET rows == SelectSeq(P, LAMBDA r : r.gameid = g)
                    IN  CellDates(rows, "before") # {} /\ CellDates(rows, "during") # {})
    IN  [k \in 1..Len(both) |->
            LET rows == SelectSeq(P, LAMBDA r : r.gameid = both[k])
                lb   == MaxDate(CellDates(rows, "before"))
                fd   == MinDate(CellDates(rows, "during"))
            IN  [gameid |-> both[k], last_before |-> lb, first_during |-> fd,
                 gap |-> DaysBetween(lb, fd)]]

(* a gap test that admits exactly 365 days *)
is_dusty_ge(row) == row.gap >= 365

(* dusty[dusty["gap"] > datetime.timedelta(days=365)] *)
is_dusty(row) == row.gap > 365

(* A column in which every cell is NaN is a float column, and one that      *)
(* holds a date is a datetime column.  dropna leaves no row as soon as one  *)
(* of the two columns is all NaN.  When both are, line 133 subtracts two    *)
(* empty float columns and the result is an empty frame; when exactly one   *)
(* is, it subtracts a float column and a datetime column, which pandas      *)
(* rejects by dtype with TypeError, rows or no rows.                        *)
dust_type_error(P) ==
    (CellDates(P, "before") = {}) # (CellDates(P, "during") = {})

dust_data(P, G, C, start, finish) ==
    LET cols == with_date_columns(P, start, finish)
    IN  IF dust_type_error(cols)
        THEN [error |-> "TypeError", rows |-> <<>>]
        ELSE [error |-> "",
              rows  |-> merge_index(SelectSeq(dusty_rows(cols), is_dusty),
                                    game_data(G, C))]

-----------------------------------------------------------------------------
(* dateplays_data *)

(* plays["month"] = plays["date"].dt.month; plays["day"] = plays["date"].dt.day *)
with_month_day_columns(P) ==
    [i \in 1..Len(P) |->
        [P[i] EXCEPT !.month = IntCell(P[i].date[2]),
                     !.day   = IntCell(P[i].date[3])]]

(* a total that counts the play rows of a day instead of their quantity *)
day_total_rows(P, month, day) ==
    Len(SelectSeq(P, LAMBDA r : r.month = IntCell(month) /\ r.day = IntCell(day)))

(* plays.groupby(["month","day"]).agg(plays=("quantity","sum")) joined on    *)
(* (month, day), then fillna(0): the summed quantity of the rows of that    *)
(* month and day, 0 when the day has no group                               *)
day_total(P, month, day) ==
    Sum(Column(SelectSeq(P, LAMBDA r : r.month = IntCell(month) /\ r.day = IntCell(day)),
               "quantity"))

(* first = datetime(2000, 1, 1); [first + timedelta(days=d) for d in range(366)] *)
possible_days == [d \in 1..366 |-> AddDays(<<2000, 1, 1>>, d - 1)]

(* days.join(playtotals, on=["month","day"], how="left"), one row per       *)
(* possible day in the order of possible_days                               *)
date_plays(P) ==
    [k \in 1..Len(possible_days) |->
        [month |-> possible_days[k][2], day |-> possible_days[k][3],
         plays |-> day_total(P, possible_days[k][2], possible_days[k][3])]]

(* sort_values(by=["plays","month","day"]), a stable lexsort: the rows of    *)
(* each total, totals ascending.  The rows of the joined frame are unique   *)
(* on (month, day) and already ascend by it (possible_days runs through the *)
(* year 2000 day by day), so within one total they keep the frame's order.  *)
RECURSIVE sort_plays_month_day(_, _)
sort_plays_month_day(rows, totals) ==
    IF totals = <<>> THEN <<>>
    ELSE SelectSeq(rows, LAMBDA r : r.plays = Head(totals))
            \o sort_plays_month_day(rows, Tail(totals))

dateplays_data(P) ==
    LET DP == date_plays(with_month_day_columns(P))
    IN  sort_plays_month_day(DP, SortedInts(Range(Column(DP, "plays"))))

-----------------------------------------------------------------------------
(* through_the_years_data and archaeologist_data *)

TTY_START_YEAR == 1985

NaT == None

(* pd.merge(plays[plays["date"].dt.year == year], games[games["expansion"] == 0], *)
(*          on="gameid", how="left"): every play of the year is kept, in row order; *)
(* the game columns are NaN when no non-expansion game row matches                  *)
year_plays(P, G, year) ==
    LET inYear == SelectSeq(P, LAMBDA r : r.date[1] = year)
        base   == SelectSeq(G, not_expansion)
    IN  [i \in 1..Len(inYear) |->
            LET m == {j \in 1..Len(base) : base[j].gameid = inYear[i].gameid}
            IN  IF m = {}
                THEN [gameid |-> inYear[i].gameid, date |-> inYear[i].date,
                      name |-> "", rank |-> NaN, year |-> NaN]
                ELSE LET g == base[CHOOSE j \in m : TRUE]
                     IN  [gameid |-> inYear[i].gameid, date |-> inYear[i].date,
                          name |-> g.name, rank |-> g.rank, year |-> g.year]]

(* agg(..."first") of a group: the first row of the group in frame order *)
FirstWhere(rows, Test(_)) == rows[MinOf({i \in 1..Len(rows) : Test(rows[i])})]

(* a selection that takes the first play row of the publication year in    *)
(* frame order instead of the earliest one                                  *)
first_by_year_unsorted(PD, y) ==
    LET row == FirstWhere(PD, LAMBDA r : r.year = y)
    IN  [year |-> y, date |-> row.date, gameid |-> row.gameid, name |-> row.name]

(* .groupby(["year","date"]).agg(first).sort_values(by=["date"])            *)
(*  .groupby("year").agg(first): for a publication year, the earliest date  *)
(* of the year's plays and the first play row of that date (rows whose year *)
(* is NaN belong to no group)                                               *)
first_by_year(PD, y) ==
    LET rows == SelectSeq(PD, LAMBDA r : r.year = y)
        date == MinDate(Range(Column(rows, "date")))
        row  == FirstWhere(rows, LAMBDA r : r.date = date)
    IN  [year |-> y, date |-> date, gameid |-> row.gameid, name |-> row.name]

(* pd.merge(years, first_by_year, how="left"); name.fillna("") *)
through_the_years_data(P, G, year) ==
    LET PD    == year_plays(P, G, year)
        years == [k \in 1..(year + 1 - TTY_START_YEAR) |-> TTY_START_YEAR + k - 1]
    IN  [k \in 1..Len(years) |->
            IF \E i \in 1..Len(PD) : PD[i].year = years[k]
            THEN first_by_year(PD, years[k])
            ELSE [year |-> years[k], date |-> NaT, gameid |-> NaN, name |-> ""]]

(* .groupby(["rank"]).agg(first).reset_index().sort_values(by=["rank"],     *)
(*  ascending=False): one row per rank value, taken from the first play row *)
(* of that rank; rows whose rank is NaN belong to no group                  *)
rank_desc(a, b) == a.rank > b.rank

rank_rows(PD) ==
    LET ranks == SortedInts(Range(Column(PD, "rank")) \ {NaN})
        rows  == [k \in 1..Len(ranks) |->
                    LET r == FirstWhere(PD, LAMBDA x : x.rank = ranks[k])
                    IN  [rank |-> ranks[k], date |-> r.date, gameid |-> r.gameid,
                         name |-> r.name]]
    IN  StableSort(rows, rank_desc)

(* a limit that rounds the largest rank up to the next multiple of 1000 *)
rank_limit_ceil(max_rank) ==
    LET rounded == ((max_rank + 999) \div 1000) * 1000
    IN  IF rounded > 10000 THEN rounded ELSE 10000

(* limit = max(10_000, int(play_data["rank"].max() // 1000 + 1) * 1000) *)
rank_limit(max_rank) ==
    LET rounded == ((max_rank \div 1000) + 1) * 1000
    IN  IF rounded > 10000 THEN rounded ELSE 10000

(* bins = range(1000, limit + 1000, 1000); the categories of pd.cut are the *)
(* intervals (bins[k], bins[k+1]], labelled "{bin-999}-{bin}" for bins[1:]  *)
rank_bins(limit) == [k \in 1..((limit \div 1000) - 1) |-> (k + 1) * 1000]

in_rank_bin(rank, bin) == bin - 1000 < rank /\ rank <= bin

(* groupby("rank_bin").agg(first) over all categories; fillna *)
archaeologist_data(P, G, year) ==
    LET PD == rank_rows(year_plays(P, G, year))
    IN  IF PD = <<>>
        THEN [error |-> "ValueError", rows |-> <<>>]
        ELSE LET bins == rank_bins(rank_limit(MaxOf(Range(Column(PD, "rank")))))
             IN  [error |-> "",
                  rows |-> [k \in 1..Len(bins) |->
                     IF \E i \in 1..Len(PD) : in_rank_bin(PD[i].rank, bins[k])
                     THEN LET r == FirstWhere(PD, LAMBDA x : in_rank_bin(x.rank, bins[k]))
                          IN  [rank_bin |-> <<bins[k] - 999, bins[k]>>, rank |-> r.rank,
                               date |-> r.date, gameid |-> r.gameid, name |-> r.name]
                     ELSE [rank_bin |-> <<bins[k] - 999, bins[k]>>, rank |-> -1,
                           date |-> NaT, gameid |-> NaN, name |-> ""]]]

-----------------------------------------------------------------------------
(* default_dates *)

(* 'YYYY-MM-DD' text as the sequence of its characters: digits and "-" *)
IsoText(d) ==
    << d[1] \div 1000, (d[1] \div 100) % 10, (d[1] \div 10) % 10, d[1] % 10, "-",
       d[2] \div 10, d[2] % 10, "-", d[3] \div 10, d[3] % 10 >>

(* datetime.datetime.fromisoformat(text) for a 'YYYY-MM-DD' text *)
fromisoformat(t) ==
    << 1000 * t[1] + 100 * t[2] + 10 * t[3] + t[4], 10 * t[6] + t[7], 10 * t[9] + t[10] >>

(* start and finish are None or ISO texts; now is datetime.datetime.now()   *)
(* as <<year, month, day, hour>>.  With both bounds given they are returned *)
(* as passed.                                                               *)
default_dates(start, finish, now) ==
    IF start = None /\ finish = None
    THEN LET first == <<now[1], now[2], 1>>
             fin   == PrevDay(first)
         IN  <<<<fin[1], fin[2], 1>>, fin>>
    ELSE IF start = None
    THEN LET fin == fromisoformat(finish)
         IN  <<<<fin[1], fin[2], 1>>, fin>>
    ELSE IF finish = None
    THEN LET st   == fromisoformat(start)
             last == monthrange(st[1], st[2])
         IN  <<st, <<st[1], st[2], last>>>>
    ELSE <<start, finish>>

-----------------------------------------------------------------------------
(* annual_report_data *)

(* The alphabetical order of the game names *)
NameOrder == <<"Azul", "Brass", "Catan", "Dune", "Eclipse", "Fresco">>

NameLT(a, b) ==
    (CHOOSE i \in 1..Len(NameOrder) : NameOrder[i] = a)
        < (CHOOSE i \in 1..Len(NameOrder) : NameOrder[i] = b)

(* pd.merge(totals, games, left_index=True, right_on="gameid"): inner join  *)
merge_games(T, G) ==
    LET kept == SelectSeq(T, LAMBDA t : \E i \in 1..Len(G) : G[i].gameid = t.gameid)
    IN  [k \in 1..Len(kept) |->
            LET g == G[CHOOSE i \in 1..Len(G) : G[i].gameid = kept[k].gameid]
            IN  [gameid |-> g.gameid, name |-> g.name, expansion |-> g.expansion,
                 rank |-> g.rank, year |-> g.year,
                 plays |-> kept[k].plays, previous |-> kept[k].previous]]

(* totals[(totals["expansion"] == 0) & (totals["plays"] > 0)] *)
played_base_game(row) == row.expansion = 0 /\ row.plays > 0

(* sort_values(by=["sort_plays", "name"]) with sort_plays = -plays *)
totals_less(a, b) ==
    \/ (0 - a.plays) < (0 - b.plays)
    \/ a.plays = b.plays /\ NameLT(a.name, b.name)

annual_totals(P, G, year) ==
    LET cols == with_quantity_columns(P, <<year, 1, 1>>, <<year, 12, 31>>)
    IN  StableSort(SelectSeq(merge_games(window_totals(cols), G), played_base_game),
                   totals_less)

(* totals.groupby("year").agg(total_plays=("plays","sum")); total_plays > 0 *)
annual_years(totals) ==
    LET ys   == SortedInts(Range(Column(totals, "year")) \ {NaN})
        rows == [k \in 1..Len(ys) |->
                    [year |-> ys[k],
                     total_plays |->
                        Sum(Column(SelectSeq(totals, LAMBDA t : t.year = ys[k]), "plays"))]]
    IN  SelectSeq(rows, LAMBDA r : r.total_plays > 0)

(* a nickel test that needs more than five plays *)
is_nickel_gt(row) == row.plays > 5

(* totals[totals["plays"] >= 5] and totals[totals["plays"] >= 10] *)
is_nickel(row) == row.plays >= 5

is_dime(row) == row.plays >= 10

annual_report_data(P, G, C, year) ==
    LET start  == <<year, 1, 1>>
        finish == <<year, 12, 31>>
        hindex_relevant == SelectSeq(P, LAMBDA r : InWindow(r.date, start, finish))
        totals == annual_totals(P, G, year)
        new    == SelectSeq(totals, is_new)
    IN  [stats |->
            [TotalPlays |-> Sum(Column(totals, "plays")),
             NewToMe    |-> Len(SelectSeq(new, not_expansion)),
             Nickels    |-> Len(SelectSeq(totals, is_nickel)),
             Dimes      |-> Len(SelectSeq(totals, is_dime)),
             HIndex     |-> Len(hindex_data(hindex_relevant, G, C, None)[1])],
         years |-> annual_years(totals),
         games |-> totals]

-----------------------------------------------------------------------------
(* The loaded frames: base_data *)

GameName(g) == <<"Catan", "Azul", "Brass", "Dune", "Eclipse", "Fresco">>[g]

RankOf(g) == <<1500, 2400, 2600, 500, 10000, 11000>>[g]

YearOf(g) == <<2020, 2020, 2021, 2020, 2011, 2010>>[g]

(* One row of the games table (the columns the reports read) *)
GameRow(g, expansion) ==
    [gameid |-> g, name |-> GameName(g), expansion |-> expansion,
     rank |-> RankOf(g), year |-> YearOf(g)]

(* SELECT * FROM games: gameid is the INTEGER PRIMARY KEY, rows come in     *)
(* ascending gameid.  opt[g] is "absent", "game" or "expansion".            *)
GamesTable(opt) ==
    LET ids == SortedInts({g \in DOMAIN opt : opt[g] # "absent"})
    IN  [k \in 1..Len(ids) |->
            GameRow(ids[k], IF opt[ids[k]] = "expansion" THEN 1 ELSE 0)]

(* SELECT * FROM collectionitems WHERE username = ?: at most one row per    *)
(* gameid.  rating[g] is -1 for no row, NaN for an unrated item, or 1..10.  *)
CollectionTable(rating) ==
    LET ids == SortedInts({g \in DOMAIN rating : rating[g] # -1})
    IN  [k \in 1..Len(ids) |->
            [gameid |-> ids[k], owned |-> 1, rating |-> rating[ids[k]]]]

(* SELECT * FROM plays WHERE username = ?, date parsed; playid is the key.  *)
(* The columns before, during, month and day do not exist on a freshly      *)
(* loaded frame.                                                            *)
PlaysTable(rows) ==
    [i \in 1..Len(rows) |->
        [playid |-> i, gameid |-> rows[i].gameid, date |-> rows[i].date,
         quantity |-> rows[i].quantity,
         before |-> NoColumn, during |-> NoColumn,
         month |-> NoColumn, day |-> NoColumn]]

PlayRows(ids, dates, quantities) ==
    [gameid : ids, date : dates, quantity : quantities]

(* plays is a frame of at most MaxPlays rows, in any row order *)
LoadPlays(ids, dates, quantities) ==
    \E n \in 0..MaxPlays :
        \E rows \in [1..n -> PlayRows(ids, dates, quantities)] :
            plays = PlaysTable(rows)

NoOutput == [op |-> "none"]

(* the process is not inside collection(username) *)
Idle == [pc |-> "idle"]

USERNAME == "NormandyWept"

(* the rows of collectionitems from which base_data read the collection     *)
(* frame: SELECT * FROM collectionitems WHERE username = USERNAME           *)
StoredItems(C) ==
    {[username |-> USERNAME, gameid |-> C[i].gameid, owned |-> C[i].owned,
      rating |-> C[i].rating] : i \in 1..Len(C)}

-----------------------------------------------------------------------------
(* fetchdata.py: collection(username) *)

(* A rating of the remote service: absent or a number *)
NoRating == <<"none">>

Rated(n) == <<"num", n>>

(* game.rating if game.rating else None: an absent rating and 0 are stored   *)
(* as NULL                                                                  *)
stored_rating(rating) ==
    IF rating = NoRating \/ rating[2] = 0 THEN NaN ELSE rating[2]

(* Database.get_collection_gameids(username) *)
get_collection_gameids(T, username) ==
    {r.gameid : r \in {x \in T : x.username = username}}

(* updates: one tuple per item of the remote collection, in its order *)
collection_updates(username, remote) ==
    [k \in 1..Len(remote) |->
        [username |-> username, gameid |-> remote[k].id,
         owned |-> IF remote[k].owned THEN 1 ELSE 0,
         rating |-> stored_rating(remote[k].rating)]]

(* deletions that keep the ids the remote collection still holds *)
collection_deletions_all(stored, remote) == stored

(* deletions after the loop: the gameids read from the store before the     *)
(* remote service was asked, each id of the remote collection removed       *)
collection_deletions(stored, remote) ==
    stored \ {remote[k].id : k \in 1..Len(remote)}

(* executemany(SQL_UPDATE_COLLECTIONITEMS, updates): INSERT OR REPLACE on    *)
(* the primary key (username, gameid), one tuple after the other            *)
RECURSIVE insert_or_replace(_, _)
insert_or_replace(T, updates) ==
    IF updates = <<>> THEN T
    ELSE LET u == Head(updates)
         IN  insert_or_replace(
                {r \in T : ~(r.username = u.username /\ r.gameid = u.gameid)} \cup {u},
                Tail(updates))

(* executemany(SQL_DELETE_COLLECTIONITEMS, deletions) *)
delete_items(T, username, deletions) ==
    {r \in T : ~(r.username = username /\ r.gameid \in deletions)}

(* Database.update_and_delete_collection_items(updates, deletions) *)
update_and_delete_collection_items(T, username, updates, deletions) ==
    IF updates # <<>> \/ deletions # {}
    THEN delete_items(insert_or_replace(T, updates), username, deletions)
    ELSE T

-----------------------------------------------------------------------------
(* fetchdata.py: game_hindex_info(gameid) *)

(* the td.lf cells of the play-statistics page page_no, as play counts; a   *)
(* page past the end of the listing has none                                *)
page_at(pages, page_no) == IF page_no <= Len(pages) THEN pages[page_no] ELSE <<>>

(* the inner loop over the rows of one page: a count smaller than the       *)
(* number of counts collected so far ends the scan, any other is appended   *)
RECURSIVE scan_rows(_, _)
scan_rows(counted, rows) ==
    IF rows = <<>> THEN [plays |-> counted, finished |-> FALSE]
    ELSE IF Head(rows) < Len(counted) THEN [plays |-> counted, finished |-> TRUE]
    ELSE scan_rows(Append(counted, Head(rows)), Tail(rows))

(* for page_no in count(1): stop when finished or when the page added       *)
(* nothing (len(plays) == prev)                                             *)
RECURSIVE scan_pages(_, _, _, _)
scan_pages(counted, prev, pages, page_no) ==
    LET r == scan_rows(counted, page_at(pages, page_no))
    IN  IF r.finished \/ Len(r.plays) = prev THEN r.plays
        ELSE scan_pages(r.plays, Len(r.plays), pages, page_no + 1)

(* returns (gameid, hindex, most_plays, top_ten_plays) *)
game_hindex_info(gameid, pages) ==
    LET P == scan_pages(<<>>, 0, pages, 1)
    IN  IF Len(P) = 0 THEN <<gameid, 0, 0, 0>>
        ELSE <<gameid, Len(P), MaxOf(Range(P)),
               IF Len(P) < 10 THEN MinOf(Range(P)) ELSE P[10]>>

-----------------------------------------------------------------------------
(* The report computations as actions on the loaded frames *)

(* hindex_data(plays, games, collection, date) *)
HIndex(date) ==
    /\ out' = [op |-> "hindex", date |-> date,
               result |-> hindex_data(plays, games, collection, date)]
    /\ UNCHANGED <<plays, games, collection, collectionitems, call>>

(* new_to_me_data(plays, games, collection, start, finish) *)
NewToMe(start, finish) ==
    /\ out' = [op |-> "new_to_me", start |-> start, finish |-> finish,
               result |-> new_to_me_data(plays, games, collection, start, finish)]
    /\ plays' = with_quantity_columns(plays, start, finish)
    /\ UNCHANGED <<games, collection, collectionitems, call>>

(* dust_data(plays, games, collection, start, finish) *)
Dust(start, finish) ==
    /\ out' = [op |-> "dust", start |-> start, finish |-> finish,
               result |-> dust_data(plays, games, collection, start, finish)]
    /\ plays' = with_date_columns(plays, start, finish)
    /\ UNCHANGED <<games, collection, collectionitems, call>>

(* through_the_years_data(plays, games, year) *)
ThroughTheYears(year) ==
    /\ out' = [op |-> "through_the_years", year |-> year,
               result |-> through_the_years_data(plays, games, year)]
    /\ UNCHANGED <<plays, games, collection, collectionitems, call>>

(* archaeologist_data(plays, games, year) *)
Archaeologist(year) ==
    /\ out' = [op |-> "archaeologist", year |-> year,
               result |-> archaeologist_data(plays, games, year)]
    /\ UNCHANGED <<plays, games, collection, collectionitems, call>>

(* dateplays_data(plays) *)
DatePlays ==
    /\ out' = [op |-> "dateplays", result |-> dateplays_data(plays)]
    /\ plays' = with_month_day_columns(plays)
    /\ UNCHANGED <<games, collection, collectionitems, call>>

(* default_dates(start, finish) at the time now *)
DefaultDates(start, finish, now) ==
    /\ out' = [op |-> "default_dates", start |-> start, finish |-> finish,
               now |-> now, result |-> default_dates(start, finish, now)]
    /\ UNCHANGED <<plays, games, collection, collectionitems, call>>

(* collection(username) up to the request to the remote service: updates is *)
(* empty and deletions is the set of game ids stored for the user.  The     *)
(* program is one synchronous process: no other call starts before this one *)
(* has returned.                                                            *)
CollectionRead(username) ==
    /\ call = Idle
    /\ call' = [pc |-> "waiting", username |-> username,
                deletions |-> get_collection_gameids(collectionitems, username)]
    /\ UNCHANGED <<plays, games, collection, out, collectionitems>>

(* collection(username) from the answer of the remote service, the items    *)
(* remote, to the commit; out is the message echoed: the numbers of updates *)
(* and deletions                                                            *)
CollectionWrite(remote) ==
    /\ call # Idle
    /\ LET username  == call.username
           updates   == collection_updates(username, remote)
           deletions == collection_deletions(call.deletions, remote)
       IN  /\ collectionitems' =
                 update_and_delete_collection_items(collectionitems, username,
                                                    updates, deletions)
           /\ out' = [op |-> "collection", username |-> username, remote |-> remote,
                      updated |-> Len(updates), deleted |-> Cardinality(deletions)]
    /\ call' = Idle
    /\ UNCHANGED <<plays, games, collection>>

(* collection(username) when the request to the remote service raises: the  *)
(* exception is not caught, the call ends and nothing is written            *)
CollectionRaise ==
    /\ call # Idle
    /\ out' = [op |-> "collection_raised", username |-> call.username]
    /\ call' = Idle
    /\ UNCHANGED <<plays, games, collection, collectionitems>>

(* game_hindex_info(gameid) with the remote service serving the pages *)
GameHIndexInfo(gameid, pages) ==
    /\ out' = [op |-> "game_hindex_info", gameid |-> gameid, pages |-> pages,
               result |-> game_hindex_info(gameid, pages)]
    /\ UNCHANGED <<plays, games, collection, collectionitems, call>>

(* annual_report_data(plays, games, collection, year) *)
AnnualReport(year) ==
    /\ out' = [op |-> "annual", year |-> year,
               result |-> annual_report_data(plays, games, collection, year)]
    /\ plays' = with_quantity_columns(plays, <<year, 1, 1>>, <<year, 12, 31>>)
    /\ UNCHANGED <<games, collection, collectionitems, call>>

-----------------------------------------------------------------------------
(* Specification of all reports on one loaded snapshot *)

ReportIds == {1, 2}

ReportDates == {<<2022, 1, 1>>, <<2023, 1, 2>>}

ReportQuantities == {1, 2}

ReportStart == <<2023, 1, 2>>

ReportFinish == <<2023, 1, 31>>

ReportYears == {2023}

(* game 1 is a rated base game; game 2 may be an expansion, missing from    *)
(* the games table or missing from the collection                           *)
ReportGameOpts == {opt \in [ReportIds -> {"absent", "game", "expansion"}] : opt[1] = "game"}

ReportRatings == {r \in [ReportIds -> {-1, 10}] : r[1] = 10}

Init ==
    /\ LoadPlays(ReportIds, ReportDates, ReportQuantities)
    /\ games \in {GamesTable(opt) : opt \in ReportGameOpts}
    /\ collection \in {CollectionTable(r) : r \in ReportRatings}
    /\ out = NoOutput
    /\ collectionitems = StoredItems(collection)
    /\ call = Idle

Next ==
    \/ HIndex(None)
    \/ NewToMe(ReportStart, ReportFinish)
    \/ Dust(ReportStart, ReportFinish)
    \/ \E year \in ReportYears : ThroughTheYears(year)
    \/ \E year \in ReportYears : Archaeologist(year)
    \/ \E year \in ReportYears : AnnualReport(year)

Spec == Init /\ [][Next]_vars

-----------------------------------------------------------------------------
(* Specification of the h-index report *)

HIds == {1, 2, 3}

HDates == {<<2022, 6, 1>>, <<2023, 1, 1>>}

HQuantities == {1, 2}

(* game 2 is a base game, an expansion or missing from Games *)
HGameOpts ==
    {opt \in [HIds -> {"absent", "game", "expansion"}] :
        opt[1] = "game" /\ opt[3] = "game"}

HRatings ==
    {<<10, 10, 7>>, <<10, -1, NaN>>}

InitHIndex ==
    /\ LoadPlays(HIds, HDates, HQuantities)
    /\ games \in {GamesTable(opt) : opt \in HGameOpts}
    /\ collection \in {CollectionTable(r) : r \in HRatings}
    /\ out = NoOutput
    /\ collectionitems = StoredItems(collection)
    /\ call = Idle

NextHIndex == \E date \in HDates \cup {None} : HIndex(date)

SpecHIndex == InitHIndex /\ [][NextHIndex]_vars

-----------------------------------------------------------------------------
(* Specification of the window classifiers *)

WIds == {1, 2}

WDates ==
    {<<2021, 12, 31>>, <<2022, 1, 1>>, <<2023, 1, 1>>, <<2023, 1, 2>>, <<2023, 1, 3>>}

WQuantities == {1}

Windows ==
    {<<<<2023, 1, 1>>, <<2023, 1, 2>>>>, <<<<2023, 1, 2>>, <<2023, 1, 2>>>>}

WGameOpts == {opt \in [WIds -> {"absent", "game", "expansion"}] : opt[1] = "game"}

WRatings == {r \in [WIds -> {-1, NaN, 7}] : r[1] = 7}

InitWindow ==
    /\ LoadPlays(WIds, WDates, WQuantities)
    /\ games \in {GamesTable(opt) : opt \in WGameOpts}
    /\ collection \in {CollectionTable(r) : r \in WRatings}
    /\ out = NoOutput
    /\ collectionitems = StoredItems(collection)
    /\ call = Idle

NextWindow ==
    \/ \E w \in Windows : NewToMe(w[1], w[2])
    \/ \E w \in Windows : Dust(w[1], w[2])

SpecWindow == InitWindow /\ [][NextWindow]_vars

-----------------------------------------------------------------------------
(* Specification of the yearly challenges: through the years, archaeologist *)

YIds == {2, 3, 4}

YDates == {<<2022, 12, 31>>, <<2023, 1, 2>>, <<2023, 1, 3>>}

YQuantities == {1}

YYears == {2023}

(* at most one of the three games is an expansion or missing from Games *)
YGameOpts ==
    {opt \in [1..4 -> {"absent", "game", "expansion"}] :
        /\ opt[1] = "absent"
        /\ Cardinality({g \in YIds : opt[g] # "game"}) <= 1}

InitYear ==
    /\ LoadPlays(YIds, YDates, YQuantities)
    /\ games \in {GamesTable(opt) : opt \in YGameOpts}
    /\ collection = CollectionTable(<<-1, 7, 7, 7>>)
    /\ out = NoOutput
    /\ collectionitems = StoredItems(collection)
    /\ call = Idle

NextYear ==
    \/ \E year \in YYears : ThroughTheYears(year)
    \/ \E year \in YYears : Archaeologist(year)

SpecYear == InitYear /\ [][NextYear]_vars

-----------------------------------------------------------------------------
(* Specification of the archaeologist buckets beyond rank 10000 *)

BIds == {3, 5, 6}

BDates == {<<2022, 12, 31>>, <<2023, 1, 2>>}

BQuantities == {1}

BYears == {2023}

(* at most one of the three games is an expansion or missing from Games *)
BGameOpts ==
    {opt \in [1..6 -> {"absent", "game", "expansion"}] :
        /\ \A g \in (1..6) \ BIds : opt[g] = "absent"
        /\ Cardinality({g \in BIds : opt[g] # "game"}) <= 1}

InitBuckets ==
    /\ LoadPlays(BIds, BDates, BQuantities)
    /\ games \in {GamesTable(opt) : opt \in BGameOpts}
    /\ collection = CollectionTable(<<-1, -1, 7, -1, 7, 7>>)
    /\ out = NoOutput
    /\ collectionitems = StoredItems(collection)
    /\ call = Idle

NextBuckets == \E year \in BYears : Archaeologist(year)

SpecBuckets == InitBuckets /\ [][NextBuckets]_vars

-----------------------------------------------------------------------------
(* Specification of the annual summary *)

AIds == {1, 2, 3}

ADates == {<<2022, 6, 1>>, <<2023, 3, 1>>}

AQuantities == {1, 5}

AYears == {2023}

(* at most one of the three games is an expansion or missing from Games *)
AGameOpts ==
    {opt \in [AIds -> {"absent", "game", "expansion"}] :
        Cardinality({g \in AIds : opt[g] # "game"}) <= 1}

ARatings == {<<7, 7, 7>>, <<7, -1, 7>>}

InitAnnual ==
    /\ LoadPlays(AIds, ADates, AQuantities)
    /\ games \in {GamesTable(opt) : opt \in AGameOpts}
    /\ collection \in {CollectionTable(r) : r \in ARatings}
    /\ out = NoOutput
    /\ collectionitems = StoredItems(collection)
    /\ call = Idle

NextAnnual == \E year \in AYears : AnnualReport(year)

SpecAnnual == InitAnnual /\ [][NextAnnual]_vars

-----------------------------------------------------------------------------
(* Specification of the seven reports run in any order on one snapshot *)

SIds == {1, 2}

SDates == {<<2022, 1, 1>>, <<2023, 1, 2>>}

SQuantities == {1}

SWindows ==
    {<<<<2023, 1, 2>>, <<2023, 1, 31>>>>, <<<<2023, 1, 3>>, <<2023, 1, 31>>>>}

SYears == {2023}

SGameOpts == {<<"game", "game">>, <<"game", "expansion">>}

InitSnapshot ==
    /\ LoadPlays(SIds, SDates, SQuantities)
    /\ games \in {GamesTable(opt) : opt \in SGameOpts}
    /\ collection = CollectionTable(<<10, 7>>)
    /\ out = NoOutput
    /\ collectionitems = StoredItems(collection)
    /\ call = Idle

NextSnapshot ==
    \/ HIndex(None)
    \/ \E w \in SWindows : NewToMe(w[1], w[2])
    \/ \E w \in SWindows : Dust(w[1], w[2])
    \/ DatePlays
    \/ \E year \in SYears : ThroughTheYears(year)
    \/ \E year \in SYears : Archaeologist(year)
    \/ \E year \in SYears : AnnualReport(year)

SpecSnapshot == InitSnapshot /\ [][NextSnapshot]_vars

-----------------------------------------------------------------------------
(* Specification of the default report window *)

BoundDates ==
    {<<2023, 1, 31>>, <<2023, 2, 1>>, <<2024, 2, 10>>, <<2024, 2, 29>>,
     <<2100, 2, 28>>, <<2023, 12, 15>>}

BoundTexts == {IsoText(d) : d \in BoundDates}

Nows ==
    {<<2023, 1, 15, 9>>, <<2024, 3, 31, 23>>, <<2023, 3, 1, 0>>, <<2023, 12, 31, 12>>}

InitDefaultDates ==
    /\ plays = <<>>
    /\ games = GamesTable(<<"game">>)
    /\ collection = CollectionTable(<<7>>)
    /\ out = NoOutput
    /\ collectionitems = StoredItems(collection)
    /\ call = Idle

NextDefaultDates ==
    \E start \in BoundTexts \cup {None} : \E finish \in BoundTexts \cup {None} :
        \E now \in Nows : DefaultDates(start, finish, now)

SpecDefaultDates == InitDefaultDates /\ [][NextDefaultDates]_vars

-----------------------------------------------------------------------------
(* Specification of the collection update of the store *)

MaxRemote == 2

Usernames == {USERNAME, "Guildmate"}

CIds == {1, 2}

(* the items the remote service may list; an id may be listed twice *)
RemoteItems ==
    {[id |-> 1, owned |-> TRUE, rating |-> Rated(9)],
     [id |-> 1, owned |-> FALSE, rating |-> NoRating],
     [id |-> 2, owned |-> TRUE, rating |-> Rated(0)],
     [id |-> 2, owned |-> TRUE, rating |-> Rated(9)]}

InitCollection ==
    /\ plays = <<>>
    /\ games = GamesTable(<<"game", "game">>)
    /\ collection = <<>>
    /\ out = NoOutput
    /\ \E keys \in SUBSET (Usernames \X CIds) :
          collectionitems =
              {[username |-> k[1], gameid |-> k[2], owned |-> 1, rating |-> 7] : k \in keys}
    /\ call = Idle

NextCollection ==
    \/ \E username \in Usernames : CollectionRead(username)
    \/ \E n \in 0..MaxRemote :
          \E remote \in [1..n -> RemoteItems] : CollectionWrite(remote)
    \/ CollectionRaise

SpecCollection == InitCollection /\ [][NextCollection]_vars

-----------------------------------------------------------------------------
(* Specification of the per-game h-index scrape *)

PlayCounts == 1..3

PageLengths == 1..2

PageNumbers == 0..3

RECURSIVE Flatten(_)
Flatten(pages) == IF pages = <<>> THEN <<>> ELSE Head(pages) \o Flatten(Tail(pages))

NonIncreasing(L) == \A k \in 1..(Len(L) - 1) : L[k] >= L[k + 1]

(* the pages of a listing of per-player play counts, largest count first *)
PageListings ==
    LET Pages == UNION {[1..k -> PlayCounts] : k \in PageLengths}
    IN  {p \in UNION {[1..n -> Pages] : n \in PageNumbers} : NonIncreasing(Flatten(p))}

InitGameHIndex ==
    /\ plays = <<>>
    /\ games = GamesTable(<<"game">>)
    /\ collection = <<>>
    /\ out = NoOutput
    /\ collectionitems = StoredItems(collection)
    /\ call = Idle

NextGameHIndex == \E pages \in PageListings : GameHIndexInfo(1, pages)

SpecGameHIndex == InitGameHIndex /\ [][NextGameHIndex]_vars

-----------------------------------------------------------------------------
(* Specification of the date histogram *)

DIds == {1}

DDates == {<<2020, 2, 29>>, <<2023, 2, 28>>, <<2024, 2, 29>>, <<2023, 3, 1>>}

DQuantities == {1, 2}

InitDates ==
    /\ LoadPlays(DIds, DDates, DQuantities)
    /\ games = GamesTable(<<"game">>)
    /\ collection = CollectionTable(<<7>>)
    /\ out = NoOutput
    /\ collectionitems = StoredItems(collection)
    /\ call = Idle

NextDates == DatePlays

SpecDates == InitDates /\ [][NextDates]_vars

-----------------------------------------------------------------------------
(* Properties of the h-index report (checked under SpecHIndex) *)

(* the plays rows that pass the cutoff of the last hindex_data call *)
KeptRows(date) ==
    {i \in 1..Len(plays) : date = None \/ ~DateLT(date, plays[i].date)}

KeptRowsOf(g, date) == {i \in KeptRows(date) : plays[i].gameid = g}

RECURSIVE SumQuantity(_)
SumQuantity(I) ==
    IF I = {} THEN 0
    ELSE LET i == CHOOSE j \in I : TRUE
         IN  plays[i].quantity + SumQuantity(I \ {i})

InGames(g) == \E i \in 1..Len(games) : games[i].gameid = g

IsExpansion(g) == \E i \in 1..Len(games) : games[i].gameid = g /\ games[i].expansion # 0

InCollection(g) == \E i \in 1..Len(collection) : collection[i].gameid = g

RatedTen(g) ==
    \E i \in 1..Len(collection) : collection[i].gameid = g /\ collection[i].rating = 10

Ids(rows) == {rows[k].gameid : k \in 1..Len(rows)}

(* the classic h-index of a ranked frame: the largest n such that at least  *)
(* n rows have plays >= n                                                   *)
ClassicHIndex(R) ==
    MaxOf({n \in 0..Len(R) : Cardinality({k \in 1..Len(R) : R[k].plays >= n}) >= n})

ExamplePlays ==
    PlaysTable(<<[gameid |-> 1, date |-> <<2023, 1, 1>>, quantity |-> 3],
                 [gameid |-> 1, date |-> <<2023, 2, 1>>, quantity |-> 3],
                 [gameid |-> 2, date |-> <<2023, 1, 15>>, quantity |-> 1]>>)

ExampleGames == GamesTable(<<"game", "game">>)

ExampleCollection == CollectionTable(<<8, 7>>)

(* C1: InIndex is exactly the first n rows of the ranking, n being the      *)
(* classic h-index of the ranked non-expansion games (the largest n such    *)
(* that at least n games have total_quantity >= n); every row at rank >= n  *)
(* has total_quantity <= its rank; in the example (g1 = 6 plays, g2 = 1)    *)
(* n = 1.                                                                   *)
C1_InIndexIsClassicHIndexPrefix ==
    /\ out.op = "hindex" =>
          LET R == hitems(plays, games, collection, out.date)
              n == ClassicHIndex(R)
          IN  /\ out.result[1] = name_plays(SubSeq(R, 1, n))
              /\ \A k \in (n + 1)..Len(R) : R[k].plays <= k - 1
              /\ \A k \in 1..n : R[k].plays >= n
    /\ LET E == hindex_data(ExamplePlays, ExampleGames, ExampleCollection, None)
       IN  /\ Len(E[1]) = 1
           /\ E[1][1].gameid = 1 /\ E[1][1].plays = 6
           /\ E[2] = <<>>

C1_Witness ==
    /\ out.op = "hindex"
    /\ Len(out.result[1]) = 2
    /\ Len(hitems(plays, games, collection, out.date)) = 3

(* C2: the total_quantity of the aggregated play totals sums to the sum of  *)
(* quantity over the plays that pass the cutoff (all plays when there is no *)
(* cutoff), also when several rows share (gameid, date).                    *)
C2_AggregationConservesQuantity ==
    out.op = "hindex" =>
        Sum(Column(play_totals(plays_upto(plays, out.date)), "plays"))
            = SumQuantity(KeptRows(out.date))

C2_Witness ==
    /\ out.op = "hindex"
    /\ out.date # None
    /\ KeptRows(out.date) # 1..Len(plays)
    /\ \E i, j \in KeptRows(out.date) :
          /\ i # j
          /\ plays[i].gameid = plays[j].gameid
          /\ plays[i].date = plays[j].date
          /\ plays[i].quantity = plays[j].quantity

(* C3: a gameid is in the play totals iff it has a play dated on or before  *)
(* the cutoff; every game present has total_quantity >= 1 and latest equal  *)
(* to the maximum date of its kept plays; a game with no kept play is       *)
(* absent.                                                                  *)
C3_TotalsPresentIffKeptPlay ==
    out.op = "hindex" =>
        LET T == play_totals(plays_upto(plays, out.date))
        IN  /\ \A g \in HIds :
                  (\E k \in 1..Len(T) : T[k].gameid = g) <=> KeptRowsOf(g, out.date) # {}
            /\ \A k \in 1..Len(T) :
                  /\ T[k].plays >= 1
                  /\ \E i \in KeptRowsOf(T[k].gameid, out.date) : plays[i].date = T[k].latest
                  /\ \A i \in KeptRowsOf(T[k].gameid, out.date) :
                        ~DateLT(T[k].latest, plays[i].date)
                  /\ \A j \in 1..Len(T) : T[j].gameid = T[k].gameid => j = k

C3_Witness ==
    /\ out.op = "hindex"
    /\ out.date = <<2022, 6, 1>>
    /\ \E i, j, k \in 1..Len(plays) :
          /\ plays[i].gameid = 1 /\ plays[i].date = <<2022, 6, 1>>
          /\ plays[j].gameid = 1 /\ plays[j].date = <<2023, 1, 1>>
          /\ plays[k].gameid = 2 /\ plays[k].date = <<2023, 1, 1>>
    /\ Ids(play_totals(plays_upto(plays, out.date))) = {1}

(* the 0-indexed rank positions h whose row has total_quantity > h *)
PositionsAboveRank(R) == {h \in 0..(Len(R) - 1) : R[h + 1].plays > h}

(* C4 as stated: the size of InIndex is the maximal 0-indexed rank position *)
(* h such that the total_quantity of the game at rank h is greater than h.  *)
C4_SizeIsMaximalPosition ==
    out.op = "hindex" =>
        LET R == hitems(plays, games, collection, out.date)
        IN  PositionsAboveRank(R) # {} =>
                Len(out.result[1]) = MaxOf(PositionsAboveRank(R))

(* C4 amended: the size of InIndex is one more than the maximal 0-indexed   *)
(* rank position h such that the total_quantity of the game at rank h is    *)
(* greater than h, and 0 when no rank position satisfies that.              *)
C4_SizeIsMaximalPositionPlusOne ==
    out.op = "hindex" =>
        LET R == hitems(plays, games, collection, out.date)
        IN  Len(out.result[1]) =
                IF PositionsAboveRank(R) = {} THEN 0
                ELSE MaxOf(PositionsAboveRank(R)) + 1

C4_Witness ==
    /\ out.op = "hindex"
    /\ LET R == hitems(plays, games, collection, out.date)
       IN  /\ Len(R) = 2
           /\ MaxOf(PositionsAboveRank(R) \cup {-1}) = 0
           /\ Len(out.result[1]) = 1

(* C5: in the ranking a is before b whenever a has the larger               *)
(* total_quantity, or the same total_quantity and an earlier latest-play    *)
(* date; the ranks are 0..k-1 in that order over exactly the games that     *)
(* have a kept play, a games row that is no expansion and a collection row. *)
C5_RankingOrder ==
    out.op = "hindex" =>
        LET R == hitems(plays, games, collection, out.date)
        IN  /\ \A i, j \in 1..Len(R) :
                  (\/ R[i].plays > R[j].plays
                   \/ R[i].plays = R[j].plays /\ DateLT(R[i].latest, R[j].latest))
                      => i < j
            /\ \A k \in 1..Len(R) :
                  /\ R[k].h = k - 1
                  /\ R[k].plays = SumQuantity(KeptRowsOf(R[k].gameid, out.date))
                  /\ \E i \in KeptRowsOf(R[k].gameid, out.date) : plays[i].date = R[k].latest
                  /\ \A i \in KeptRowsOf(R[k].gameid, out.date) :
                        ~DateLT(R[k].latest, plays[i].date)
            /\ Ids(R) = {g \in HIds : /\ KeptRowsOf(g, out.date) # {}
                                      /\ InGames(g) /\ ~IsExpansion(g)
                                      /\ InCollection(g)}
            /\ Cardinality(Ids(R)) = Len(R)

C5_Witness ==
    /\ out.op = "hindex"
    /\ IsExpansion(2)
    /\ SumQuantity(KeptRowsOf(2, out.date)) = 2
    /\ LET R == hitems(plays, games, collection, out.date)
       IN  /\ Len(R) = 2
           /\ R[1].gameid = 3 /\ R[2].gameid = 1
           /\ R[1].plays = R[2].plays

(* C6: NearMiss is exactly the ranked non-expansion games with rank         *)
(* h >= total_quantity and collection rating 10; InIndex and NearMiss are   *)
(* disjoint; with an empty play set both are empty.                         *)
C6_NearMissExact ==
    out.op = "hindex" =>
        LET R == hitems(plays, games, collection, out.date)
            wanted == {k \in 1..Len(R) : k - 1 >= R[k].plays /\ RatedTen(R[k].gameid)}
        IN  /\ Ids(out.result[2]) = {R[k].gameid : k \in wanted}
            /\ Len(out.result[2]) = Cardinality(wanted)
            /\ \A a, b \in 1..Len(out.result[2]) :
                  a < b => \E i, j \in wanted :
                              /\ i < j
                              /\ R[i].gameid = out.result[2][a].gameid
                              /\ R[j].gameid = out.result[2][b].gameid
            /\ \A a \in 1..Len(out.result[2]) : \A k \in 1..Len(R) :
                  R[k].gameid = out.result[2][a].gameid =>
                      /\ out.result[2][a].plays = R[k].plays
                      /\ out.result[2][a].name = R[k].name
            /\ Ids(out.result[1]) \cap Ids(out.result[2]) = {}
            /\ plays = <<>> => out.result = <<(<<>>), (<<>>)>>

C6_Witness ==
    /\ out.op = "hindex"
    /\ Ids(out.result[1]) = {1}
    /\ Ids(out.result[2]) = {2}
    /\ RatedTen(1) /\ RatedTen(2)
    /\ Len(hitems(plays, games, collection, out.date)) = 3

-----------------------------------------------------------------------------
(* Properties of the window classifiers (checked under SpecWindow) *)

RowsBefore(g, start) ==
    {i \in 1..Len(plays) : plays[i].gameid = g /\ DateLT(plays[i].date, start)}

RowsDuring(g, start, finish) ==
    {i \in 1..Len(plays) : /\ plays[i].gameid = g
                           /\ ~DateLT(plays[i].date, start)
                           /\ ~DateLT(finish, plays[i].date)}

DatesOf(I) == {plays[i].date : i \in I}

(* C9: new_to_me_data returns a non-expansion game that is in Games and in  *)
(* the collection iff the quantity of its plays dated before start sums to  *)
(* 0 and the quantity of its plays dated in [start, finish] sums to more    *)
(* than 0; a play dated exactly start or exactly finish counts as during,   *)
(* a play dated after finish as neither.                                    *)
C9_NewToMeExact ==
    out.op = "new_to_me" =>
        /\ \A g \in WIds :
              (InGames(g) /\ ~IsExpansion(g) /\ InCollection(g)) =>
                  (g \in Ids(out.result) <=>
                      /\ SumQuantity(RowsBefore(g, out.start)) = 0
                      /\ SumQuantity(RowsDuring(g, out.start, out.finish)) > 0)
        /\ Cardinality(Ids(out.result)) = Len(out.result)
        /\ \A i \in 1..Len(plays) :
              /\ plays[i].date \in {out.start, out.finish} =>
                    /\ plays[i].during = IntCell(plays[i].quantity)
                    /\ plays[i].before = IntCell(0)
              /\ DateLT(out.finish, plays[i].date) =>
                    /\ plays[i].during = IntCell(0)
                    /\ plays[i].before = IntCell(0)

C9_Witness ==
    /\ out.op = "new_to_me"
    /\ out.start = <<2023, 1, 1>> /\ out.finish = <<2023, 1, 2>>
    /\ Ids(out.result) = {1, 2}
    /\ \E i, j, k \in 1..Len(plays) :
          /\ plays[i].gameid = 1 /\ plays[i].date = out.start
          /\ plays[j].gameid = 2 /\ plays[j].date = out.finish
          /\ plays[k].gameid = 2 /\ DateLT(out.finish, plays[k].date)

(* C10: dust_data reports a game (of the joined games and collection data)  *)
(* iff it has a play dated before start and a play dated in [start, finish] *)
(* and the days from its latest play before start to its earliest play in   *)
(* the window are more than 365: exactly 365 days do not qualify, 366 do;   *)
(* older plays do not matter when a later play before start is within 365   *)
(* days of the first play in the window.                                    *)
C10_DustGap ==
    /\ DaysBetween(<<2022, 1, 1>>, <<2023, 1, 1>>) = 365
    /\ DaysBetween(<<2022, 1, 1>>, <<2023, 1, 2>>) = 366
    /\ DaysBetween(<<2021, 12, 31>>, <<2023, 1, 1>>) = 366
    /\ out.op = "dust" =>
        /\ \A g \in WIds :
              (InGames(g) /\ InCollection(g)) =>
                  (g \in Ids(out.result.rows) <=>
                      /\ RowsBefore(g, out.start) # {}
                      /\ RowsDuring(g, out.start, out.finish) # {}
                      /\ DaysBetween(MaxDate(DatesOf(RowsBefore(g, out.start))),
                                     MinDate(DatesOf(RowsDuring(g, out.start, out.finish))))
                            > 365)
        /\ \A k \in 1..Len(out.result.rows) :
              LET r == out.result.rows[k]
              IN  /\ r.last_before = MaxDate(DatesOf(RowsBefore(r.gameid, out.start)))
                  /\ r.first_during =
                        MinDate(DatesOf(RowsDuring(r.gameid, out.start, out.finish)))
                  /\ r.gap = DaysBetween(r.last_before, r.first_during)
        /\ Cardinality(Ids(out.result.rows)) = Len(out.result.rows)

C10_Witness ==
    /\ out.op = "dust"
    /\ out.start = <<2023, 1, 1>> /\ out.finish = <<2023, 1, 2>>
    /\ InGames(1) /\ InCollection(1)
    /\ DatesOf(RowsBefore(1, out.start)) = {<<2021, 12, 31>>, <<2022, 1, 1>>}
    /\ DatesOf(RowsDuring(1, out.start, out.finish)) = {<<2023, 1, 2>>}
    /\ Ids(out.result.rows) = {1}
    /\ out.result.rows[1].gap = 366

-----------------------------------------------------------------------------
(* Properties of all reports (checked under Spec) *)

(* the gameids that the last report returned *)
ReportedIds ==
    CASE out.op = "hindex" -> Ids(out.result[1]) \cup Ids(out.result[2])
      [] out.op = "new_to_me" -> Ids(out.result)
      [] out.op = "dust" -> Ids(out.result.rows)
      [] out.op = "through_the_years" -> Ids(out.result) \ {NaN}
      [] out.op = "archaeologist" -> Ids(out.result.rows) \ {NaN}
      [] out.op = "annual" -> Ids(out.result.games)
      [] OTHER -> {}

(* C7: no game with is_expansion true appears in the output of the h-index  *)
(* calculator, new-to-me, out-of-the-dust, through-the-years, archaeologist *)
(* or the annual summary.                                                   *)
C7_NoExpansionReported == \A g \in ReportedIds : ~IsExpansion(g)

Joined(g) == InGames(g) /\ InCollection(g)

RowsInYear(g, year) ==
    {i \in 1..Len(plays) : plays[i].gameid = g /\ plays[i].date[1] = year}

(* the games whose plays the annual summary may count if plays of games     *)
(* missing from Games or from the collection are excluded                   *)
JoinedPlayed(year) ==
    {g \in ReportIds : Joined(g) /\ ~IsExpansion(g) /\ RowsInYear(g, year) # {}}

(* C8: a play whose gameid is absent from Games or from the collection      *)
(* contributes to no row and no count of any report: every reported game is *)
(* in both, and the annual 'Total Plays', 'New to Me', 'Nickels' and        *)
(* 'Dimes' count only plays of games that are in both.                      *)
C8_UnjoinedPlaysExcluded ==
    /\ \A g \in ReportedIds : Joined(g)
    /\ out.op = "annual" =>
          /\ out.result.stats.TotalPlays =
                SumQuantity(UNION {RowsInYear(g, out.year) : g \in JoinedPlayed(out.year)})
          /\ out.result.stats.NewToMe =
                Cardinality({g \in JoinedPlayed(out.year) :
                                RowsBefore(g, <<out.year, 1, 1>>) = {}})
          /\ out.result.stats.Nickels =
                Cardinality({g \in JoinedPlayed(out.year) :
                                SumQuantity(RowsInYear(g, out.year)) >= 5})
          /\ out.result.stats.Dimes =
                Cardinality({g \in JoinedPlayed(out.year) :
                                SumQuantity(RowsInYear(g, out.year)) >= 10})


-----------------------------------------------------------------------------
(* Properties of the date histogram (checked under SpecDates) *)

(* the lengths of the months of a leap year *)
LeapMonthDays == <<31, 29, 31, 30, 31, 30, 31, 31, 30, 31, 30, 31>>

RowsOnDay(month, day) ==
    {i \in 1..Len(plays) : plays[i].date[2] = month /\ plays[i].date[3] = day}

(* C15: dateplays_data returns 366 rows, exactly one for each (month, day)  *)
(* of a leap-year calendar, (2, 29) included; the total of a row is the     *)
(* summed quantity of all plays of any year on that month and day (0 when   *)
(* there are none), so the totals sum to the quantity of all plays; rows    *)
(* ascend by total, and rows of equal total are in calendar order.          *)
C15_DatePlaysDense ==
    out.op = "dateplays" =>
        LET R == out.result
        IN  /\ Len(R) = 366
            /\ \A m \in 1..12 : \A d \in 1..LeapMonthDays[m] :
                    Cardinality({k \in 1..Len(R) : R[k].month = m /\ R[k].day = d}) = 1
            /\ \A k \in 1..Len(R) :
                    R[k].plays = SumQuantity(RowsOnDay(R[k].month, R[k].day))
            /\ Sum(Column(SelectSeq(R, LAMBDA r : r.plays > 0), "plays"))
                    = SumQuantity(1..Len(plays))
            /\ \A k \in 1..(Len(R) - 1) :
                    \/ R[k].plays < R[k + 1].plays
                    \/ /\ R[k].plays = R[k + 1].plays
                       /\ \/ R[k].month < R[k + 1].month
                          \/ R[k].month = R[k + 1].month /\ R[k].day < R[k + 1].day

C15_Witness ==
    /\ out.op = "dateplays"
    /\ Len(plays) = 3
    /\ out.result[1] = [month |-> 1, day |-> 1, plays |-> 0]
    /\ out.result[365] = [month |-> 3, day |-> 1, plays |-> 1]
    /\ out.result[366] = [month |-> 2, day |-> 29, plays |-> 3]


-----------------------------------------------------------------------------
(* Properties of the yearly challenges (checked under SpecYear) *)

GameOf(g) == games[CHOOSE i \in 1..Len(games) : games[i].gameid = g]

(* the non-expansion games of the games table with a play dated in the year *)
BasePlayed(year) ==
    {g \in Ids(games) : ~IsExpansion(g) /\ RowsInYear(g, year) # {}}

BasePlayedInBucket(year, low, high) ==
    {g \in BasePlayed(year) : low <= GameOf(g).rank /\ GameOf(g).rank <= high}

BasePlayedOfYear(year, published) ==
    {g \in BasePlayed(year) : GameOf(g).year = published}

DatesInYear(S, year) == UNION {DatesOf(RowsInYear(g, year)) : g \in S}

(* C11: the archaeologist buckets are 1-1000, 1001-2000, 2001-3000, ...,    *)
(* each exactly once and at least up to 10000; a non-expansion game of      *)
(* catalog rank 1..1000 played in the target year is reported in the bucket *)
(* 1-1000; buckets without a qualifying play appear with a blank entry.     *)
C11_BucketsStartAtRankOne ==
    (out.op = "archaeologist" /\ out.result.error = "") =>
        LET R == out.result.rows
        IN  /\ Len(R) >= 10
            /\ \A k \in 1..Len(R) : R[k].rank_bin = <<1000 * (k - 1) + 1, 1000 * k>>
            /\ BasePlayedInBucket(out.year, 1, 1000) # {} =>
                  R[1].gameid \in BasePlayedInBucket(out.year, 1, 1000)
            /\ \A k \in 1..Len(R) :
                  BasePlayedInBucket(out.year, R[k].rank_bin[1], R[k].rank_bin[2]) = {} =>
                      /\ R[k].gameid = NaN /\ R[k].date = NaT
                      /\ R[k].name = "" /\ R[k].rank = -1

(* C12: every archaeologist bucket with a non-expansion game played in the  *)
(* target year reports the earliest in-year play date among the games whose *)
(* rank falls in the bucket, and a game of the bucket played on that date.  *)
C12_BucketReportsEarliest ==
    (out.op = "archaeologist" /\ out.result.error = "") =>
        LET R == out.result.rows
        IN  \A k \in 1..Len(R) :
                LET S == BasePlayedInBucket(out.year, R[k].rank_bin[1], R[k].rank_bin[2])
                IN  S # {} =>
                        /\ R[k].date = MinDate(DatesInYear(S, out.year))
                        /\ R[k].gameid \in S
                        /\ R[k].date \in DatesOf(RowsInYear(R[k].gameid, out.year))

(* C14: through_the_years_data returns one row per publication year from    *)
(* 1985 through the target year, ascending; the row of a year is non-blank  *)
(* iff a non-expansion game published in that year has a play dated in the  *)
(* target year, and then it carries the earliest such play date and a game  *)
(* of that publication year played on that date; other rows are blank.      *)
C14_ThroughTheYearsDense ==
    out.op = "through_the_years" =>
        LET R == out.result
        IN  /\ Len(R) = out.year - TTY_START_YEAR + 1
            /\ \A k \in 1..Len(R) :
                  LET S == BasePlayedOfYear(out.year, R[k].year)
                  IN  /\ R[k].year = TTY_START_YEAR + k - 1
                      /\ S = {} =>
                            R[k].date = NaT /\ R[k].gameid = NaN /\ R[k].name = ""
                      /\ S # {} =>
                            /\ R[k].date = MinDate(DatesInYear(S, out.year))
                            /\ R[k].gameid \in S
                            /\ R[k].date \in DatesOf(RowsInYear(R[k].gameid, out.year))
                            /\ R[k].name = GameOf(R[k].gameid).name

(* games 2 and 4 are both published in 2020; the later play comes first in  *)
(* the frame and a third game is an expansion                               *)
C14_Witness ==
    /\ out.op = "through_the_years"
    /\ Len(plays) = 3
    /\ plays[1].gameid = 2 /\ plays[1].date = <<2023, 1, 3>>
    /\ plays[2].gameid = 4 /\ plays[2].date = <<2023, 1, 2>>
    /\ plays[3].gameid = 3 /\ IsExpansion(3)
    /\ out.result[36] = [year |-> 2020, date |-> <<2023, 1, 2>>, gameid |-> 4,
                         name |-> "Dune"]
    /\ out.result[37].date = NaT


-----------------------------------------------------------------------------
(* Properties of the annual summary (checked under SpecAnnual) *)

(* C16: in the annual summary the plays-by-publication-year rows are        *)
(* ordered by descending play count, and the per-game list by descending    *)
(* in-year play count with ties broken by ascending name.                   *)
C16_YearsByDescendingCount ==
    out.op = "annual" =>
        LET Y == out.result.years
            T == out.result.games
        IN  /\ \A k \in 1..(Len(Y) - 1) : Y[k].total_plays >= Y[k + 1].total_plays
            /\ \A k \in 1..(Len(T) - 1) :
                  \/ T[k].plays > T[k + 1].plays
                  \/ T[k].plays = T[k + 1].plays /\ NameLT(T[k].name, T[k + 1].name)

(* the plays frame restricted to the rows dated within the year *)
PlaysOfYear(year) == SelectSeq(plays, LAMBDA r : r.date[1] = year)

(* C17: annual_report_data returns the five statistics as numbers, 0 when   *)
(* nothing qualifies; 'Total Plays' is the sum of in-year plays over the    *)
(* per-game list, 'Nickels' the number of listed games with at least 5      *)
(* in-year plays and 'Dimes' the number with at least 10, so                *)
(* Dimes <= Nickels <= number of listed games; 'H-Index' is the size of     *)
(* InIndex of hindex_data over only the plays dated within the target year. *)
C17_AnnualStatistics ==
    out.op = "annual" =>
        LET S == out.result.stats
            T == out.result.games
            H == hitems(PlaysOfYear(out.year), games, collection, None)
        IN  /\ S.TotalPlays \in Nat /\ S.NewToMe \in Nat /\ S.Nickels \in Nat
            /\ S.Dimes \in Nat /\ S.HIndex \in Nat
            /\ \A k \in 1..Len(T) :
                  T[k].plays = SumQuantity(RowsInYear(T[k].gameid, out.year))
            /\ S.TotalPlays = Sum(Column(T, "plays"))
            /\ S.Nickels = Cardinality({k \in 1..Len(T) : T[k].plays >= 5})
            /\ S.Dimes = Cardinality({k \in 1..Len(T) : T[k].plays >= 10})
            /\ S.Dimes <= S.Nickels /\ S.Nickels <= Len(T)
            /\ S.HIndex =
                  Len(hindex_data(PlaysOfYear(out.year), games, collection, None)[1])
            /\ S.HIndex = ClassicHIndex(H)
            /\ PlaysOfYear(out.year) = <<>> =>
                  /\ S.TotalPlays = 0 /\ S.NewToMe = 0 /\ S.Nickels = 0
                  /\ S.Dimes = 0 /\ S.HIndex = 0

C17_Witness ==
    /\ out.op = "annual"
    /\ out.result.stats.TotalPlays = 11
    /\ out.result.stats.Nickels = 1
    /\ out.result.stats.Dimes = 1
    /\ out.result.stats.HIndex = 1
    /\ Len(out.result.games) = 2


-----------------------------------------------------------------------------
(* Properties of the reports as computations on a snapshot (SpecSnapshot) *)

(* the plays frame as base_data loaded it: the rows without the columns the *)
(* reports assign                                                           *)
Loaded(P) ==
    [i \in 1..Len(P) |->
        [P[i] EXCEPT !.before = NoColumn, !.during = NoColumn,
                     !.month = NoColumn, !.day = NoColumn]]

(* C13: every report ends in a valid non-error result on an empty result    *)
(* set: with no plays at all, or no play in the target year or window, each *)
(* of the seven *_data functions returns an empty or all-blank report       *)
(* rather than raising an error.                                            *)
C13_EmptyIsNotAnError ==
    /\ (out.op = "hindex" /\ plays = <<>>) => out.result = <<<<>>, <<>>>>
    /\ (out.op = "new_to_me" /\ plays = <<>>) => out.result = <<>>
    /\ (out.op = "dust"
          /\ \A i \in 1..Len(plays) : ~InWindow(plays[i].date, out.start, out.finish)) =>
            out.result.error = "" /\ out.result.rows = <<>>
    /\ (out.op = "dateplays" /\ plays = <<>>) =>
            \A k \in 1..Len(out.result) : out.result[k].plays = 0
    /\ (out.op = "through_the_years" /\ PlaysOfYear(out.year) = <<>>) =>
            \A k \in 1..Len(out.result) : out.result[k].date = NaT
    /\ (out.op = "archaeologist" /\ PlaysOfYear(out.year) = <<>>) =>
            /\ out.result.error = ""
            /\ \A k \in 1..Len(out.result.rows) : out.result.rows[k].date = NaT
    /\ (out.op = "annual" /\ PlaysOfYear(out.year) = <<>>) =>
            out.result.stats.TotalPlays = 0 /\ out.result.games = <<>>

(* C18: a report is a function of the loaded snapshot: its result is the    *)
(* result of the same call on the frames as they were loaded, whichever     *)
(* reports ran on the frames before it and in whatever order.               *)
C18_ReportsAreFunctionsOfSnapshot ==
    LET P == Loaded(plays)
    IN  CASE out.op = "hindex" ->
                out.result = hindex_data(P, games, collection, out.date)
          [] out.op = "new_to_me" ->
                out.result = new_to_me_data(P, games, collection, out.start, out.finish)
          [] out.op = "dust" ->
                out.result = dust_data(P, games, collection, out.start, out.finish)
          [] out.op = "dateplays" ->
                out.result = dateplays_data(P)
          [] out.op = "through_the_years" ->
                out.result = through_the_years_data(P, games, out.year)
          [] out.op = "archaeologist" ->
                out.result = archaeologist_data(P, games, out.year)
          [] out.op = "annual" ->
                out.result = annual_report_data(P, games, collection, out.year)
          [] OTHER -> TRUE

(* new-to-me run for the window starting 2023-01-02 on a frame that holds   *)
(* the month and day columns of the date histogram, after other reports     *)
C18_Witness ==
    /\ out.op = "new_to_me"
    /\ out.start = <<2023, 1, 2>>
    /\ Len(out.result) = 1
    /\ Len(plays) = 3
    /\ \A i \in 1..Len(plays) : plays[i].month # NoColumn

(* C19: a report leaves the frames passed to it unchanged: same rows, same  *)
(* columns, same values of plays, games and collection.                     *)
C19_InputsUnchanged ==
    [][plays' = plays /\ games' = games /\ collection' = collection]_vars


-----------------------------------------------------------------------------
(* Properties of default_dates (checked under SpecDefaultDates) *)

(* the number of days of a month of the Gregorian calendar *)
DaysInMonth(y, m) ==
    IF m = 2
    THEN IF (y % 400 = 0) \/ (y % 4 = 0 /\ y % 100 # 0) THEN 29 ELSE 28
    ELSE IF m \in {4, 6, 9, 11} THEN 30 ELSE 31

(* the year and month before the month of now *)
PreviousMonth(now) ==
    IF now[2] = 1 THEN <<now[1] - 1, 12>> ELSE <<now[1], now[2] - 1>>

(* C20: with both bounds missing default_dates returns the first and last   *)
(* day of the calendar month before the current one; with only start        *)
(* missing, start is the first day of the month containing finish; with     *)
(* only finish missing, finish is the last day of the month containing      *)
(* start (29 February in leap years).  In these three cases start <= finish *)
(* and both lie in the same month.                                          *)
C20_DefaultDates ==
    out.op = "default_dates" =>
        LET start  == out.result[1]
            finish == out.result[2]
            pm     == PreviousMonth(out.now)
        IN  /\ (out.start = None /\ out.finish = None) =>
                  /\ start = <<pm[1], pm[2], 1>>
                  /\ finish = <<pm[1], pm[2], DaysInMonth(pm[1], pm[2])>>
            /\ (out.start = None /\ out.finish # None) =>
                  /\ IsoText(finish) = out.finish
                  /\ start = <<finish[1], finish[2], 1>>
            /\ (out.start # None /\ out.finish = None) =>
                  /\ IsoText(start) = out.start
                  /\ finish = <<start[1], start[2], DaysInMonth(start[1], start[2])>>
            /\ (out.start = None \/ out.finish = None) =>
                  /\ DateLE(start, finish)
                  /\ start[1] = finish[1] /\ start[2] = finish[2]

C20_Witness ==
    /\ out.op = "default_dates"
    /\ out.start = IsoText(<<2024, 2, 10>>)
    /\ out.finish = None
    /\ out.result = <<<<2024, 2, 10>>, <<2024, 2, 29>>>>


-----------------------------------------------------------------------------
(* Properties of the last archaeologist bucket (checked under SpecBuckets) *)

(* the largest catalog rank among the non-expansion games played in the year *)
MaxRankPlayed(year) == MaxOf({GameOf(g).rank : g \in BasePlayed(year)})

LastBucket == out.result.rows[Len(out.result.rows)]

AtLeastTenThousand(n) == IF n > 10000 THEN n ELSE 10000

(* C21: the upper bound of the last archaeologist bucket equals             *)
(* max(10000, ceil(max_rank / 1000) * 1000), max_rank being the largest     *)
(* catalog rank among non-expansion games played in the target year; when   *)
(* max_rank is a multiple of 1000 at or above 10000 the last bucket ends at *)
(* max_rank itself and no further empty bucket follows it.                  *)
C21_LastBucketIsCeiling ==
    (out.op = "archaeologist" /\ out.result.error = "") =>
        LET m == MaxRankPlayed(out.year)
        IN  /\ LastBucket.rank_bin[2] = AtLeastTenThousand(((m + 999) \div 1000) * 1000)
            /\ (m % 1000 = 0 /\ m >= 10000) => LastBucket.rank_bin[2] = m

(* C21 as the code has it: the upper bound of the last bucket equals        *)
(* max(10000, (floor(max_rank / 1000) + 1) * 1000); when max_rank is a      *)
(* multiple of 1000 at or above 10000 the bucket that ends at max_rank is   *)
(* followed by one further bucket, max_rank+1 .. max_rank+1000, which is    *)
(* blank.                                                                   *)
C21_LastBucketIsNextThousand ==
    (out.op = "archaeologist" /\ out.result.error = "") =>
        LET m == MaxRankPlayed(out.year)
            R == out.result.rows
        IN  /\ LastBucket.rank_bin[2] = AtLeastTenThousand(((m \div 1000) + 1) * 1000)
            /\ (m % 1000 = 0 /\ m >= 10000) =>
                  /\ LastBucket.rank_bin = <<m + 1, m + 1000>>
                  /\ LastBucket.gameid = NaN /\ LastBucket.date = NaT
                  /\ R[Len(R) - 1].rank_bin[2] = m
                  /\ R[Len(R) - 1].rank = m

C21_Witness ==
    /\ out.op = "archaeologist"
    /\ out.result.error = ""
    /\ MaxRankPlayed(out.year) = 11000
    /\ Len(out.result.rows) = 11
    /\ LastBucket.rank_bin = <<11001, 12000>>
    /\ out.result.rows[10].gameid = 6


-----------------------------------------------------------------------------
(* Properties of the collection update (checked under SpecCollection) *)

RemoteIds(remote) == {remote[k].id : k \in 1..Len(remote)}

StoredIds(T, username) == {r.gameid : r \in {x \in T : x.username = username}}

(* after collection(username) the stored game ids of the user are the ids   *)
(* of the remote collection                                                 *)
CollectionStoredIsRemote ==
    out.op = "collection" =>
        StoredIds(collectionitems, out.username) = RemoteIds(out.remote)

(* the step in which collection(username) gets the answer of the remote     *)
(* service and returns: what it inserts, deletes and leaves                 *)
CollectionStep ==
    (call # Idle /\ call' = Idle /\ out'.op = "collection") =>
        LET u == out'.username
            R == out'.remote
        IN  /\ u = call.username
            /\ \A k \in 1..Len(R) :
                  \E r \in collectionitems' :
                      /\ r.username = u /\ r.gameid = R[k].id
                      /\ \E j \in k..Len(R) :
                            /\ R[j].id = R[k].id
                            /\ r.owned = (IF R[j].owned THEN 1 ELSE 0)
            /\ \A g \in StoredIds(collectionitems, u) \ RemoteIds(R) :
                  g \notin StoredIds(collectionitems', u)
            /\ Range(Column(collection_updates(u, R), "gameid"))
                  \cap collection_deletions(call.deletions, R) = {}
            /\ {r \in collectionitems' : r.username # u}
                  = {r \in collectionitems : r.username # u}
            /\ (out.op = "collection" /\ out.username = u /\ out.remote = R) =>
                  /\ StoredIds(collectionitems', u) = StoredIds(collectionitems, u)
                  /\ collectionitems' = collectionitems

(* C22: after collection(username), for any prior contents of the store,    *)
(* the game ids stored in collectionitems for the user are the game ids of  *)
(* the remote collection: every remote item is inserted or replaced, every  *)
(* stored id no longer in the remote collection is deleted, no id is both   *)
(* updated and deleted, rows of other users are unchanged, and a second run *)
(* against an unchanged remote collection leaves the stored set unchanged.  *)
C22_CollectionSync == [](CollectionStoredIsRemote) /\ [][CollectionStep]_vars

(* the remote collection lists game 1 twice and no longer holds game 2; the *)
(* other user has rows of their own                                         *)
C22_Witness ==
    /\ out.op = "collection"
    /\ call = Idle
    /\ out.username = USERNAME
    /\ out.updated = 2
    /\ out.deleted = 1
    /\ StoredIds(collectionitems, USERNAME) = {1}
    /\ StoredIds(collectionitems, "Guildmate") = {1, 2}


-----------------------------------------------------------------------------
(* Properties of game_hindex_info (checked under SpecGameHIndex) *)

(* the h-index of a listing: the largest h such that at least h players     *)
(* have logged at least h plays                                             *)
ListingHIndex(L) ==
    MaxOf({h \in 0..Len(L) : Cardinality({k \in 1..Len(L) : L[k] >= h}) >= h})

(* C23: for a finite listing of per-player play counts in non-increasing    *)
(* order across pages, game_hindex_info returns as hindex the h-index of    *)
(* the listing (the listing [1, 1] gives 1), returns (gameid, 0, 0, 0) for  *)
(* the empty listing, and most_plays is the largest count of the listing.   *)
C23_GameHIndexIsHIndex ==
    out.op = "game_hindex_info" =>
        LET L == Flatten(out.pages)
            r == out.result
        IN  /\ r[1] = out.gameid
            /\ r[2] = ListingHIndex(L)
            /\ L = <<1, 1>> => r[2] = 1
            /\ L = <<>> => r = <<out.gameid, 0, 0, 0>>
            /\ L # <<>> => r[3] = MaxOf(Range(L))

====
